---- MODULE Spec2Model ----
(***************************************************************************)
(* The logs receiver (package logsreceiver): Start/Shutdown, the polling   *)
(* loop, the per-tick fan-out of one goroutine per target, and what one    *)
(* poll of one target does with the HTTP response and the sink.            *)
(***************************************************************************)
EXTENDS Integers, Sequences, FiniteSets, TLC

(***************************************************************************)
(* Bounds of the model.                                                    *)
(***************************************************************************)
\* Shutdown calls the host makes (sequentially or concurrently).
MaxShutdowns == 2

\* The Start calls the model tells apart; each launches its own poll loop.
LoopIds == {1, 2}

\* r.config.Targets: the configured targets.
Targets == {"a", "b"}

N == Cardinality(Targets)

\* target.Method values a configuration holds; http.NewRequestWithContext
\* rejects a method that is not a valid token.
Methods == {"GET", "BAD METHOD"}

ValidMethod(m) == m = "GET"

(***************************************************************************)
(* HTTP responses the polled servers send.                                 *)
(***************************************************************************)
BodyObject == <<"{", "}">>
BodyBadJSON == <<"{">>
BodyBlank == <<" ", "\n", "\n">>
BodyLines == <<"a", "\n", " ", "b">>
NoResp == [status |-> 0, ct |-> "", body |-> <<>>]

Responses ==
    { [status |-> 200, ct |-> "application/json", body |-> BodyBadJSON],
      [status |-> 200, ct |-> "text/plain", body |-> BodyBlank],
      [status |-> 200, ct |-> "text/plain", body |-> BodyLines],
      [status |-> 400, ct |-> "application/json", body |-> BodyBadJSON] }

(***************************************************************************)
(* parseLogs and what it calls.                                            *)
(***************************************************************************)
\* strings.ToLower on the header values and level names the model uses:
\* those written with a capital letter are listed, the others are their own
\* lower-case form
ToLower(s) ==
    CASE s = "APPLICATION/JSON" -> "application/json"
      [] s = "Application/Json; charset=utf-8" -> "application/json; charset=utf-8"
      [] s = "Text/Plain" -> "text/plain"
      [] s = "TRACE" -> "trace"
      [] s = "Debug" -> "debug"
      [] s = "INFO" -> "info"
      [] s = "WARN" -> "warn"
      [] s = "Warning" -> "warning"
      [] s = "WARNING" -> "warning"
      [] s = "ERROR" -> "error"
      [] s = "Fatal" -> "fatal"
      [] s = "Other" -> "other"
      [] OTHER -> s

\* strings.Contains(ct, "application/json") on the lower-case header values
ContainsApplicationJSON(ct) ==
    ct \in {"application/json", "application/json; charset=utf-8"}

\* the header value compared as it is written
IsJSONContentTypeExact(ct) == ct = "application/json"

\* strings.Contains(strings.ToLower(ct), "application/json")
IsJSONContentType(ct) == ContainsApplicationJSON(ToLower(ct))

\* a decoder that accepts every body
JSONValidAlways(body) == TRUE

\* json.Unmarshal(body, &jsonData) returns nil
JSONValid(body) == body \in {BodyObject}

\* unicode.IsSpace on the characters the bodies hold
IsSpace(c) == c \in {" ", "\t", "\r", "\n"}

RECURSIVE TrimLeft(_)
TrimLeft(s) ==
    IF s = <<>> THEN <<>>
    ELSE IF IsSpace(Head(s)) THEN TrimLeft(Tail(s)) ELSE s

RECURSIVE TrimRight(_)
TrimRight(s) ==
    IF s = <<>> THEN <<>>
    ELSE IF IsSpace(s[Len(s)]) THEN TrimRight(SubSeq(s, 1, Len(s) - 1)) ELSE s

\* strings.TrimSpace
TrimSpace(s) == TrimRight(TrimLeft(s))

\* strings.Split(s, "\n"): the pieces between newlines, empty ones included
RECURSIVE SplitLines(_, _)
SplitLines(s, cur) ==
    IF s = <<>> THEN <<cur>>
    ELSE IF Head(s) = "\n" THEN <<cur>> \o SplitLines(Tail(s), <<>>)
    ELSE SplitLines(Tail(s), Append(cur, Head(s)))

\* a blank line is skipped, a kept line is not trimmed
RECURSIVE KeepNonEmptyUntrimmed(_)
KeepNonEmptyUntrimmed(lines) ==
    IF lines = <<>> THEN <<>>
    ELSE IF TrimSpace(Head(lines)) = <<>>
    THEN KeepNonEmptyUntrimmed(Tail(lines))
    ELSE <<Head(lines)>> \o KeepNonEmptyUntrimmed(Tail(lines))

\* lines 235-246: the loop over the lines
RECURSIVE KeepNonEmptyTrimmed(_)
KeepNonEmptyTrimmed(lines) ==
    IF lines = <<>> THEN <<>>
    ELSE LET line == TrimSpace(Head(lines))
         IN  IF line = <<>> THEN KeepNonEmptyTrimmed(Tail(lines))
             ELSE <<line>> \o KeepNonEmptyTrimmed(Tail(lines))

\* parseTextLogs: one log record per line that is non-empty after trimming
parseTextLogs(body) ==
    [err |-> FALSE, records |-> KeepNonEmptyTrimmed(SplitLines(body, <<>>))]

\* parseJSONLogs: a decode error, or exactly one record (addLogRecord)
parseJSONLogs(body) ==
    IF ~JSONValid(body) THEN [err |-> TRUE, records |-> <<>>]
    ELSE [err |-> FALSE, records |-> <<body>>]

parseLogs(ct, body) ==
    IF IsJSONContentType(ct) THEN parseJSONLogs(body) ELSE parseTextLogs(body)

\* logs.LogRecordCount()
LogRecordCount(logs) == Len(logs.records)

\* the level compared as it is written
getSeverityNumberExact(level) ==
    CASE level = "trace" -> "SeverityNumberTrace"
      [] level = "debug" -> "SeverityNumberDebug"
      [] level = "info" -> "SeverityNumberInfo"
      [] level \in {"warn", "warning"} -> "SeverityNumberWarn"
      [] level = "error" -> "SeverityNumberError"
      [] level = "fatal" -> "SeverityNumberFatal"
      [] OTHER -> "SeverityNumberInfo"

\* getSeverityNumber: the switch on strings.ToLower(level)
getSeverityNumber(level) ==
    LET l == ToLower(level)
    IN  CASE l = "trace" -> "SeverityNumberTrace"
          [] l = "debug" -> "SeverityNumberDebug"
          [] l = "info" -> "SeverityNumberInfo"
          [] l \in {"warn", "warning"} -> "SeverityNumberWarn"
          [] l = "error" -> "SeverityNumberError"
          [] l = "fatal" -> "SeverityNumberFatal"
          [] OTHER -> "SeverityNumberInfo"

(***************************************************************************)
(* Decoded JSON: what json.Unmarshal stores in an interface{}.  A JSON     *)
(* null is the nil interface, the value extractValueByPath also returns    *)
(* when it finds nothing.                                                  *)
(***************************************************************************)
\* the longest array of the decoded payloads
MaxElems == 2

\* the longest text body handed to parseTextLogs
MaxBodyLen == 5

\* the most targets of a configuration handed to Validate
MaxConfigTargets == 2

Null == [k |-> "null"]
Str(s) == [k |-> "str", s |-> s]
Num(n) == [k |-> "num", n |-> n]
Arr(e) == [k |-> "arr", elems |-> e]
Obj(f) == [k |-> "obj", fields |-> f]

SeqsUpTo(S, n) == UNION {[1..m -> S] : m \in 0..n}
Arrs(S) == {Arr(e) : e \in SeqsUpTo(S, MaxElems)}
ObjsAt(D, S) == {Obj(f) : f \in [D -> S]}

\* strings.SplitN(path, ".", 2): parts[0]
RECURSIVE HeadOf(_)
HeadOf(path) ==
    IF path = <<>> \/ Head(path) = "." THEN <<>>
    ELSE <<Head(path)>> \o HeadOf(Tail(path))

\* strings.SplitN(path, ".", 2): parts[1], or "" when there is no dot
RECURSIVE TailOf(_)
TailOf(path) ==
    IF path = <<>> THEN <<>>
    ELSE IF Head(path) = "." THEN Tail(path)
    ELSE TailOf(Tail(path))

\* child, ok := node[head]
HasKey(node, head) == \E key \in DOMAIN node.fields : <<key>> = head
Child(node, head) ==
    node.fields[CHOOSE key \in DOMAIN node.fields : <<key>> = head]

RECURSIVE extractValueByPath(_, _)
RECURSIVE extractElems(_, _)
RECURSIVE extractElemsNested(_, _)

\* a per-element sequence result is appended as one member, not spliced
extractElemsNested(path, els) ==
    IF els = <<>> THEN <<>>
    ELSE LET v == extractValueByPath(path, Head(els)) IN
         (IF v = Null THEN <<>> ELSE <<v>>)
             \o extractElemsNested(path, Tail(els))

\* lines 325-335: results after the loop over the elements
extractElems(path, els) ==
    IF els = <<>> THEN <<>>
    ELSE LET v == extractValueByPath(path, Head(els)) IN
         (IF v = Null THEN <<>>
          ELSE IF v.k = "arr" THEN v.elems
          ELSE <<v>>) \o extractElems(path, Tail(els))

\* lines 299-344
extractValueByPath(path, raw) ==
    IF raw = Null \/ path = <<>> THEN Null
    ELSE LET head == HeadOf(path)
             tail == TailOf(path) IN
         CASE raw.k = "obj" ->
                IF HasKey(raw, head)
                THEN IF tail = <<>> THEN Child(raw, head)
                     ELSE extractValueByPath(tail, Child(raw, head))
                ELSE Null
           [] raw.k = "arr" ->
                LET results == extractElems(path, raw.elems) IN
                IF Len(results) = 0 THEN Null ELSE Arr(results)
           [] OTHER -> Null

(***************************************************************************)
(* addLogRecord: the log record of a decoded JSON payload.                 *)
(***************************************************************************)
\* pcommon.Value after SetStr, SetDouble, SetEmptySlice, SetEmptyMap
PStr(s) == [t |-> "Str", str |-> s]
PDouble(n) == [t |-> "Double", num |-> n]
PSlice(vs) == [t |-> "Slice", vals |-> vs]
PMap(m) == [t |-> "Map", entries |-> m]

\* fmt prints the keys of a map in sorted order
KeyOrder == <<"a", "b">>

RECURSIVE Sprintv(_)
RECURSIVE SprintElems(_)
RECURSIVE SprintFields(_, _)

\* the members of a slice, separated by blanks
SprintElems(els) ==
    IF els = <<>> THEN <<>>
    ELSE Sprintv(Head(els))
           \o (IF Len(els) > 1 THEN <<" ">> ELSE <<>>) \o SprintElems(Tail(els))

\* the key:value pairs of a map
SprintFields(f, keys) ==
    IF keys = <<>> THEN <<>>
    ELSE IF Head(keys) \in DOMAIN f
    THEN <<Head(keys), ":">> \o Sprintv(f[Head(keys)])
           \o (IF \E i \in 2..Len(keys) : keys[i] \in DOMAIN f
               THEN <<" ">> ELSE <<>>)
           \o SprintFields(f, Tail(keys))
    ELSE SprintFields(f, Tail(keys))

\* fmt.Sprintf("%v", val), as the pieces of the text
Sprintv(v) ==
    CASE v.k = "str" -> <<v.s>>
      [] v.k = "num" -> <<ToString(v.n)>>
      [] v.k = "null" -> <<"<nil>">>
      [] v.k = "arr" -> <<"[">> \o SprintElems(v.elems) \o <<"]">>
      [] v.k = "obj" -> <<"map[">> \o SprintFields(v.fields, KeyOrder) \o <<"]">>

\* line 263
NotFound == <<"NOT FOUND">>

RECURSIVE setBodyValue(_)

\* the body is the payload printed as one string
setBodyValueString(v) == PStr(Sprintv(v))

\* lines 271-297
setBodyValue(v) ==
    CASE v.k = "obj" ->
           PMap([key \in DOMAIN v.fields |-> setBodyValue(v.fields[key])])
      [] v.k = "arr" ->
           PSlice([i \in 1..Len(v.elems) |-> setBodyValue(v.elems[i])])
      [] v.k = "str" -> PStr(v.s)
      [] v.k = "num" -> PDouble(v.n)
      [] v.k = "null" -> PStr("null")

\* the value found is printed whether it is nil or not
LabelAttrNoNilCheck(path, data) == Sprintv(extractValueByPath(path, data))

\* line 260-264: the attribute of one label
LabelAttr(path, data) ==
    LET val == extractValueByPath(path, data) IN
    IF val # Null THEN Sprintv(val) ELSE NotFound

\* a label whose path finds nothing gets no attribute
addLogRecordSkipMissing(data, target) ==
    LET found == {name \in DOMAIN target.labels :
                    extractValueByPath(target.labels[name], data) # Null} IN
    [attrs |-> [name \in found |-> LabelAttr(target.labels[name], data)],
     body |-> setBodyValue(data)]

\* lines 252-268: the record appended to scopeLogs
addLogRecord(data, target) ==
    [attrs |-> [name \in DOMAIN target.labels |->
                  LabelAttr(target.labels[name], data)],
     body |-> setBodyValue(data)]

\* Attributes().PutStr(key, value): the entry is added, or replaced when the
\* map already has the key
PutStr(m, key, value) ==
    [x \in DOMAIN m \cup {key} |-> IF x = key THEN value ELSE m[x]]

\* lines 227-229: PutStr for every entry of target.Labels; the keys of a map
\* are distinct, so the order of the range loop does not show
PutLabels(m, labels) ==
    [x \in DOMAIN m \cup DOMAIN labels |->
        IF x \in DOMAIN labels THEN labels[x] ELSE m[x]]

\* lines 207-208: the resource attributes of a JSON batch
jsonResource(target) ==
    PutStr(PutStr(<<>>, "endpoint", target.endpoint),
           "service.name", target.serviceName)

\* the resource attributes of a text batch without the labels
textResourceNoLabels(target) ==
    PutStr(PutStr(<<>>, "service.name", target.serviceName),
           "endpoint", target.endpoint)

\* lines 223-229: the resource attributes of a text batch
textResource(target) ==
    PutLabels(PutStr(PutStr(<<>>, "service.name", target.serviceName),
                     "endpoint", target.endpoint),
              target.labels)

\* lines 218-249: parseTextLogs with the resource of its target
parseTextLogsFor(body, target) ==
    [err |-> FALSE, resource |-> textResource(target),
     records |-> parseTextLogs(body).records]

\* one record for each element of a top-level array
parseJSONDataPerElement(data, target) ==
    [err |-> FALSE, resource |-> jsonResource(target),
     records |-> IF data.k = "arr"
                 THEN [i \in 1..Len(data.elems) |->
                         addLogRecord(data.elems[i], target)]
                 ELSE <<addLogRecord(data, target)>>]

\* lines 204-214: parseJSONLogs once json.Unmarshal has returned jsonData
parseJSONData(data, target) ==
    [err |-> FALSE, resource |-> jsonResource(target),
     records |-> <<addLogRecord(data, target)>>]

(***************************************************************************)
(* createRequest.                                                          *)
(***************************************************************************)
\* textproto.CanonicalMIMEHeaderKey, which Header.Set and Header.Get apply
CanonicalKey(key) == IF key = "content-type" THEN "Content-Type" ELSE key

\* req.Header.Set(key, value)
SetHeader(h, key, value) ==
    [x \in DOMAIN h \cup {CanonicalKey(key)} |->
        IF x = CanonicalKey(key) THEN value ELSE h[x]]

\* req.Header.Get(key)
GetHeader(h, key) ==
    IF CanonicalKey(key) \in DOMAIN h THEN h[CanonicalKey(key)] ELSE ""

\* lines 165-167: the target's headers, in the order the map yields them
RECURSIVE ApplyHeaders(_, _)
ApplyHeaders(h, list) ==
    IF list = <<>> THEN h
    ELSE ApplyHeaders(SetHeader(h, Head(list)[1], Head(list)[2]), Tail(list))

\* lines 171-175
InferContentType(body) ==
    IF TrimSpace(body) # <<>> /\ Head(TrimSpace(body)) = "{"
    THEN "application/json" ELSE "text/plain"

\* the inferred type is set whatever the headers say
createRequestAlwaysInfer(target) ==
    IF ~ValidMethod(target.method) THEN [err |-> TRUE, header |-> <<>>]
    ELSE LET h == ApplyHeaders(<<>>, target.headers) IN
         [err |-> FALSE,
          header |-> IF target.body # <<>>
                     THEN SetHeader(h, "Content-Type", InferContentType(target.body))
                     ELSE h]

\* lines 153-179
createRequest(target) ==
    IF ~ValidMethod(target.method) THEN [err |-> TRUE, header |-> <<>>]
    ELSE LET h == ApplyHeaders(<<>>, target.headers) IN
         [err |-> FALSE,
          header |-> IF target.body # <<>> /\ GetHeader(h, "Content-Type") = ""
                     THEN SetHeader(h, "Content-Type", InferContentType(target.body))
                     ELSE h]

(***************************************************************************)
(* Config.Validate and targetConfig.Validate.                              *)
(***************************************************************************)
\* 30 * time.Second, in seconds
DefaultInterval == 30

IsLetter(c) == c = "h"

\* url.getScheme: the place of the first character that is no letter, 0 if
\* there is none
FirstNonLetter(e) ==
    IF \E i \in 1..Len(e) : ~IsLetter(e[i])
    THEN CHOOSE i \in 1..Len(e) :
            ~IsLetter(e[i]) /\ \A j \in 1..(i - 1) : IsLetter(e[j])
    ELSE 0

\* url.getScheme fails: a colon with nothing before it
SchemeError(e) == FirstNonLetter(e) = 1 /\ e[1] = ":"

SchemeOf(e) ==
    IF FirstNonLetter(e) > 1 /\ e[FirstNonLetter(e)] = ":"
    THEN SubSeq(e, 1, FirstNonLetter(e) - 1) ELSE <<>>

RestOf(e) ==
    IF SchemeOf(e) # <<>> THEN SubSeq(e, FirstNonLetter(e) + 1, Len(e)) ELSE e

\* url.ParseRequestURI returns no error: an absolute path, or a scheme
\* followed by anything
ParseRequestURIOk(e) ==
    /\ e # <<>>
    /\ ~SchemeError(e)
    /\ \/ RestOf(e) # <<>> /\ Head(RestOf(e)) = "/"
       \/ SchemeOf(e) # <<>>

\* the defaults are written over the values the target has
targetValidateOverwrite(t) ==
    IF t.endpoint = <<>> THEN [err |-> "endpoint must be specified", target |-> t]
    ELSE IF ~ParseRequestURIOk(t.endpoint)
    THEN [err |-> "invalid endpoint", target |-> t]
    ELSE [err |-> "none",
          target |-> [endpoint |-> t.endpoint, method |-> "GET",
                      serviceName |-> "logs-receiver", logLevel |-> "info"]]

\* targetConfig.Validate
targetValidate(t) ==
    IF t.endpoint = <<>> THEN [err |-> "endpoint must be specified", target |-> t]
    ELSE IF ~ParseRequestURIOk(t.endpoint)
    THEN [err |-> "invalid endpoint", target |-> t]
    ELSE [err |-> "none",
          target |-> [endpoint |-> t.endpoint,
                      method |-> IF t.method = "" THEN "GET" ELSE t.method,
                      serviceName |-> IF t.serviceName = "" THEN "logs-receiver"
                                      ELSE t.serviceName,
                      logLevel |-> IF t.logLevel = "" THEN "info"
                                   ELSE t.logLevel]]

\* the loop of Config.Validate: the targets are validated in order, each in
\* place, up to the first that fails
RECURSIVE ValidateTargets(_)
ValidateTargets(ts) ==
    IF ts = <<>> THEN [err |-> "none", targets |-> <<>>]
    ELSE LET r == targetValidate(Head(ts)) IN
         IF r.err # "none" THEN [err |-> r.err, targets |-> ts]
         ELSE LET rest == ValidateTargets(Tail(ts)) IN
              [err |-> rest.err, targets |-> <<r.target>> \o rest.targets]

\* Config.Validate
ConfigValidate(cfg) ==
    IF Len(cfg.targets) = 0 THEN [err |-> "no targets configured", cfg |-> cfg]
    ELSE LET r == ValidateTargets(cfg.targets) IN
         [err |-> r.err,
          cfg |-> [interval |-> IF cfg.interval <= 0 THEN DefaultInterval
                                ELSE cfg.interval,
                   targets |-> r.targets]]

(***************************************************************************)
(* pollTarget, after client.Do has returned.                               *)
(***************************************************************************)
\* the comparison off by one: 400 itself passes
StatusIsErrorAbove(status) == status > 400

\* line 125
StatusIsError(status) == status >= 400

\* the sink is called for an empty result too
ShouldConsumeAlways(count) == count >= 0

\* line 139
ShouldConsume(count) == count > 0

\* no plog.Logs has been handed to the sink
NoBatch == [endpoint |-> "", records |-> <<>>]

IdlePoll ==
    [st |-> "idle", target |-> "", resp |-> NoResp, err |-> "none",
     count |-> -1, calls |-> 0, attempts |-> 0, batch |-> NoBatch]

SpawnedPoll == [IdlePoll EXCEPT !.st = "spawned"]

\* line 94: the goroutine gets its target as an argument
Spawn(t) == [SpawnedPoll EXCEPT !.target = t]

Finish(p, e) == [p EXCEPT !.st = "done", !.err = e]

\* what ConsumeLogs is handed: the plog.Logs this poll's parseLogs built,
\* with the resource attribute endpoint of the poll's target (lines 207, 224)
Batch(p, logs) == [endpoint |-> p.target, records |-> logs.records]

\* the sink is handed one entry of the parse result at a time
BatchFirstEntry(p, logs) ==
    [endpoint |-> p.target, records |-> <<Head(logs.records)>>]

\* the hand-off of line 140 with a batch that holds the first entry only
AfterResponseSplit(p, r) ==
    LET q == [p EXCEPT !.resp = r] IN
    IF StatusIsError(r.status) THEN Finish(q, "status")
    ELSE LET logs == parseLogs(r.ct, r.body) IN
         IF logs.err THEN Finish(q, "decode")
         ELSE LET c == LogRecordCount(logs) IN
              IF ShouldConsume(c)
              THEN [q EXCEPT !.st = "consume", !.count = c, !.calls = @ + 1,
                             !.batch = BatchFirstEntry(q, logs)]
              ELSE Finish([q EXCEPT !.count = c], "none")

\* lines 125-149: status check, body read, parse, hand-off to the sink
AfterResponse(p, r) ==
    LET q == [p EXCEPT !.resp = r] IN
    IF StatusIsError(r.status) THEN Finish(q, "status")
    ELSE LET logs == parseLogs(r.ct, r.body) IN
         IF logs.err THEN Finish(q, "decode")
         ELSE LET c == LogRecordCount(logs) IN
              IF ShouldConsume(c)
              THEN [q EXCEPT !.st = "consume", !.count = c, !.calls = @ + 1,
                             !.batch = Batch(q, logs)]
              ELSE Finish([q EXCEPT !.count = c], "none")

\* a failed request is sent once more
AfterDoErrorRetry(p) ==
    IF p.attempts < 2 THEN [p EXCEPT !.attempts = @ + 1]
    ELSE Finish(p, "transport")

\* lines 119-122: client.Do has returned an error; it is not called again
AfterDoError(p) == Finish(p, "transport")

\* a rejected batch is handed to the sink once more
AfterConsumeRetry(p, sinkOk) ==
    IF sinkOk THEN Finish(p, "none")
    ELSE IF p.calls < 2 THEN [p EXCEPT !.calls = @ + 1]
    ELSE Finish(p, "sink")

\* lines 140-149: ConsumeLogs has returned
AfterConsume(p, sinkOk) ==
    IF sinkOk THEN Finish(p, "none") ELSE Finish(p, "sink")

VARIABLES
    calc,        \* a function of the receiver called on its own: input and result
    method,      \* target.Method of each target (the configuration)
    cancel,      \* r.cancel: 0 is nil, l is the cancel function of Start l's context
    doneClosed,  \* r.done has been closed
    crashed,     \* the process has died of a panic
    pc,          \* where the poll goroutine of each Start is
    ctxDone,     \* the context of each Start has been cancelled
    tick,        \* a tick waits in the channel of each loop's ticker
    poll,        \* the pollTarget goroutine of each loop and target
    orphans,     \* pollTarget goroutines of earlier fan-outs still running
    sdPendR,     \* Shutdown calls blocked on r.done, made on a running receiver
    sdPendO,     \* Shutdown calls blocked on r.done, made before Start or after the stop
    sdRetR,      \* Shutdown calls made on a running receiver that have returned
    sdRetO       \* the other Shutdown calls that have returned

sd == <<sdPendR, sdPendO, sdRetR, sdRetO>>

vars == <<calc, method, cancel, doneClosed, crashed, pc, ctxDone, tick, poll,
          orphans, sdPendR, sdPendO, sdRetR, sdRetO>>

\* the loop is inside pollTargets, called from line 77 or from line 84
Waiting == {"first", "ticked"}

Running(p) == p.st \in {"spawned", "http", "consume"}

starts == Cardinality({l \in LoopIds : pc[l] # "unborn"})

sdCalls == sdPendR + sdPendO + sdRetR + sdRetO

RECURSIVE SumOver(_, _)
SumOver(f, S) ==
    IF S = {} THEN 0
    ELSE LET x == CHOOSE y \in S : TRUE IN f[x] + SumOver(f, S \ {x})

RunningIn(l) == Cardinality({t \in Targets : Running(poll[l][t])})

\* goroutines inside pollTarget
InFlight == SumOver([l \in LoopIds |-> RunningIn(l) + orphans[l]], LoopIds)

\* the states of section 4.6, read off the receiver's fields
Lifecycle ==
    IF cancel = 0 THEN "Idle"
    ELSE IF ~doneClosed THEN "Running"
    ELSE "Stopped"

\* no function is called on its own
NoCalc == [fn |-> "none", done |-> TRUE]

Init ==
    /\ calc = NoCalc
    /\ method \in [Targets -> Methods]
    /\ cancel = 0
    /\ doneClosed = FALSE
    /\ crashed = FALSE
    /\ pc = [l \in LoopIds |-> "unborn"]
    /\ ctxDone = [l \in LoopIds |-> FALSE]
    /\ tick = [l \in LoopIds |-> FALSE]
    /\ poll = [l \in LoopIds |-> [t \in Targets |-> IdlePoll]]
    /\ orphans = [l \in LoopIds |-> 0]
    /\ sdPendR = 0
    /\ sdPendO = 0
    /\ sdRetR = 0
    /\ sdRetO = 0

(***************************************************************************)
(* Start and Shutdown, called by the host.                                 *)
(***************************************************************************)
\* Start runs the first fan-out itself before it returns
StartPollsFirst ==
    /\ ~crashed
    /\ \E l \in LoopIds :
        /\ pc[l] = "unborn"
        /\ \A k \in LoopIds : k < l => pc[k] # "unborn"
        /\ cancel' = l
        /\ pc' = [pc EXCEPT ![l] = "first"]
        /\ poll' = [poll EXCEPT ![l] = [t \in Targets |-> Spawn(t)]]
    /\ UNCHANGED <<calc, method, doneClosed, crashed, ctxDone, tick, orphans, sd>>

\* lines 46-56: a fresh context, r.cancel overwritten, a poll goroutine launched
Start ==
    /\ ~crashed
    /\ \E l \in LoopIds :
        /\ pc[l] = "unborn"
        /\ \A k \in LoopIds : k < l => pc[k] # "unborn"
        /\ cancel' = l
        /\ pc' = [pc EXCEPT ![l] = "start"]
    /\ UNCHANGED <<calc, method, doneClosed, crashed, ctxDone, tick, poll, orphans, sd>>

\* lines 60-62: cancel the context of the latest Start, then block on done
ShutdownCall ==
    /\ ~crashed
    /\ sdCalls < MaxShutdowns
    /\ ctxDone' = IF cancel # 0 THEN [ctxDone EXCEPT ![cancel] = TRUE]
                  ELSE ctxDone
    /\ IF Lifecycle = "Running"
       THEN sdPendR' = sdPendR + 1 /\ UNCHANGED sdPendO
       ELSE sdPendO' = sdPendO + 1 /\ UNCHANGED sdPendR
    /\ UNCHANGED <<calc, method, cancel, doneClosed, crashed, pc, tick, poll,
                   orphans, sdRetR, sdRetO>>

\* Shutdown returns without the receive from r.done
ShutdownReturnNoWait ==
    /\ ~crashed
    /\ \/ /\ sdPendR > 0
          /\ sdPendR' = sdPendR - 1
          /\ sdRetR' = sdRetR + 1
          /\ UNCHANGED <<sdPendO, sdRetO>>
       \/ /\ sdPendO > 0
          /\ sdPendO' = sdPendO - 1
          /\ sdRetO' = sdRetO + 1
          /\ UNCHANGED <<sdPendR, sdRetR>>
    /\ UNCHANGED <<calc, method, cancel, doneClosed, crashed, pc, ctxDone, tick,
                   poll, orphans>>

\* lines 64-66: <-r.done yields once the channel is closed; Shutdown returns nil
ShutdownReturn ==
    /\ ~crashed
    /\ doneClosed
    /\ \/ /\ sdPendR > 0
          /\ sdPendR' = sdPendR - 1
          /\ sdRetR' = sdRetR + 1
          /\ UNCHANGED <<sdPendO, sdRetO>>
       \/ /\ sdPendO > 0
          /\ sdPendO' = sdPendO - 1
          /\ sdRetO' = sdRetO + 1
          /\ UNCHANGED <<sdPendR, sdRetR>>
    /\ UNCHANGED <<calc, method, cancel, doneClosed, crashed, pc, ctxDone, tick,
                   poll, orphans>>

(***************************************************************************)
(* poll and pollTargets.                                                   *)
(***************************************************************************)
\* lines 91-103: one goroutine per target; goroutines of an earlier call that
\* have not returned keep running beside them
FanOut(l) ==
    /\ poll' = [poll EXCEPT ![l] = [t \in Targets |-> Spawn(t)]]
    /\ orphans' = [orphans EXCEPT ![l] = @ + RunningIn(l)]

\* lines 71-77: the ticker is created and pollTargets is called right away;
\* the loop is then in the wg.Wait of that call
LoopFirstPoll(l) ==
    /\ ~crashed
    /\ pc[l] = "start"
    /\ FanOut(l)
    /\ pc' = [pc EXCEPT ![l] = "first"]
    /\ UNCHANGED <<calc, method, cancel, doneClosed, crashed, ctxDone, tick, sd>>

\* the ticker of loop l (created on line 73) fires; its channel holds one tick
Tick(l) ==
    /\ ~crashed
    /\ pc[l] \in Waiting \cup {"select"}
    /\ ~tick[l]
    /\ tick' = [tick EXCEPT ![l] = TRUE]
    /\ UNCHANGED <<calc, method, cancel, doneClosed, crashed, pc, ctxDone, poll,
                   orphans, sd>>

\* the select has a default case that polls: no tick is needed
LoopTickPollNoTick(l) ==
    /\ ~crashed
    /\ pc[l] = "select"
    /\ tick' = [tick EXCEPT ![l] = FALSE]
    /\ FanOut(l)
    /\ pc' = [pc EXCEPT ![l] = "ticked"]
    /\ UNCHANGED <<calc, method, cancel, doneClosed, crashed, ctxDone, sd>>

\* lines 83-84: select takes the tick and calls pollTargets; the loop is then
\* in the wg.Wait of that call
LoopTickPoll(l) ==
    /\ ~crashed
    /\ pc[l] = "select"
    /\ tick[l]
    /\ tick' = [tick EXCEPT ![l] = FALSE]
    /\ FanOut(l)
    /\ pc' = [pc EXCEPT ![l] = "ticked"]
    /\ UNCHANGED <<calc, method, cancel, doneClosed, crashed, ctxDone, sd>>

\* pollTargets returns without waiting for its goroutines
JoinNoWait(l) == TRUE

\* line 105: wg.Wait returns once every goroutine has called wg.Done,
\* whatever its pollTarget returned
JoinReady(l) == \A t \in Targets : poll[l][t].st = "done"

\* lines 105-106 and 79-80: pollTargets returns, the loop is at the select
LoopJoin(l) ==
    /\ ~crashed
    /\ pc[l] \in Waiting
    /\ JoinReady(l)
    /\ pc' = [pc EXCEPT ![l] = "select"]
    /\ poll' = [poll EXCEPT ![l] =
                  [t \in Targets |->
                     IF poll[l][t].st = "done" THEN IdlePoll ELSE poll[l][t]]]
    /\ UNCHANGED <<calc, method, cancel, doneClosed, crashed, ctxDone, tick,
                   orphans, sd>>

\* lines 81-82 and the deferred ticker.Stop and close(r.done); closing a
\* closed channel panics, which ends the process
LoopCancel(l) ==
    /\ ~crashed
    /\ pc[l] = "select"
    /\ ctxDone[l]
    /\ pc' = [pc EXCEPT ![l] = "exited"]
    /\ tick' = [tick EXCEPT ![l] = FALSE]
    /\ IF doneClosed
       THEN crashed' = TRUE /\ UNCHANGED doneClosed
       ELSE doneClosed' = TRUE /\ UNCHANGED crashed
    /\ UNCHANGED <<calc, method, cancel, ctxDone, poll, orphans, sd>>

(***************************************************************************)
(* pollTarget, one goroutine per target and fan-out.                       *)
(***************************************************************************)
\* a failing poll takes the other polls of its fan-out down with it
SetPollAbortSiblings(l, t, p) ==
    /\ poll' = [poll EXCEPT ![l] =
                  [u \in Targets |->
                     IF u = t THEN p
                     ELSE IF p.st = "done" /\ p.err # "none" /\ Running(poll[l][u])
                     THEN Finish(poll[l][u], "transport")
                     ELSE poll[l][u]]]
    /\ UNCHANGED <<calc, method, cancel, doneClosed, crashed, pc, ctxDone, tick,
                   orphans, sd>>

\* lines 95-102: the goroutine changes its own poll only; what pollTarget
\* returns is logged and dropped
SetPoll(l, t, p) ==
    /\ poll' = [poll EXCEPT ![l][t] = p]
    /\ UNCHANGED <<calc, method, cancel, doneClosed, crashed, pc, ctxDone, tick,
                   orphans, sd>>

\* lines 110-119: createRequest, then client.Do is called
PollCreateRequest(l, t) ==
    /\ ~crashed
    /\ poll[l][t].st = "spawned"
    /\ IF ValidMethod(method[t])
       THEN SetPoll(l, t, [poll[l][t] EXCEPT !.st = "http", !.attempts = @ + 1])
       ELSE SetPoll(l, t, Finish(poll[l][t], "build"))

\* lines 119-122 and 129-132: client.Do fails (connection, timeout, cancelled
\* context), or the connection fails while the body of a response is read
HttpError(l, t) ==
    /\ ~crashed
    /\ poll[l][t].st = "http"
    /\ SetPoll(l, t, AfterDoError(poll[l][t]))

\* lines 119-149: client.Do returns a response and its body is read
HttpResponse(l, t) ==
    /\ ~crashed
    /\ poll[l][t].st = "http"
    /\ \E r \in Responses : SetPoll(l, t, AfterResponse(poll[l][t], r))

\* lines 140-149: the sink's ConsumeLogs returns
ConsumeReturn(l, t) ==
    /\ ~crashed
    /\ poll[l][t].st = "consume"
    /\ \E sinkOk \in BOOLEAN :
         SetPoll(l, t, AfterConsume(poll[l][t], sinkOk))

Next ==
    \/ Start
    \/ ShutdownCall
    \/ ShutdownReturn
    \/ \E l \in LoopIds : LoopFirstPoll(l)
    \/ \E l \in LoopIds : Tick(l)
    \/ \E l \in LoopIds : LoopTickPoll(l)
    \/ \E l \in LoopIds : LoopJoin(l)
    \/ \E l \in LoopIds : LoopCancel(l)
    \/ \E l \in LoopIds, t \in Targets : PollCreateRequest(l, t)
    \/ \E l \in LoopIds, t \in Targets : HttpError(l, t)
    \/ \E l \in LoopIds, t \in Targets : HttpResponse(l, t)
    \/ \E l \in LoopIds, t \in Targets : ConsumeReturn(l, t)

Spec == Init /\ [][Next]_vars

(***************************************************************************)
(* Fairness: every goroutine that can run does run; an HTTP call and a     *)
(* sink call return; select takes a ready case again and again (Go picks   *)
(* among the ready cases at random).  Start, Shutdown and the ticker are   *)
(* the environment's.                                                      *)
(***************************************************************************)
Fairness ==
    /\ WF_vars(ShutdownReturn)
    /\ \A l \in LoopIds :
         /\ WF_vars(LoopFirstPoll(l))
         /\ WF_vars(LoopJoin(l))
         /\ SF_vars(LoopCancel(l))
    /\ \A l \in LoopIds, t \in Targets :
         /\ WF_vars(PollCreateRequest(l, t))
         /\ WF_vars(HttpError(l, t) \/ HttpResponse(l, t))
         /\ WF_vars(ConsumeReturn(l, t))

FairSpec == Spec /\ Fairness

(***************************************************************************)
(* The functions of the receiver called on their own: the first state      *)
(* holds the input of one call, the call's action applies the function.    *)
(***************************************************************************)
Leaves == {Null, Str("x"), Num(1)}
Scalars == {Str("x"), Num(1)}

RowVals == Leaves \cup Arrs(Scalars) \cup Arrs(ObjsAt({"b"}, {Str("x")}))

Rows == ObjsAt({}, Leaves) \cup ObjsAt({"a"}, RowVals) \cup ObjsAt({"b"}, Leaves)

\* the payload of TestLogsReceiver_ExtractValueByPath_NestedArrays, with the
\* keys outer, inner, value written a, b, a
NestedSample ==
    Obj([a |-> Arr(<<Obj([b |-> Arr(<<Obj([a |-> Str("x")]),
                                      Obj([a |-> Num(1)])>>)]),
                     Obj([b |-> Arr(<<Obj([a |-> Str("x")])>>)])>>)])

NestedPath == <<"a", ".", "b", ".", "a">>

\* jsonData after a successful json.Unmarshal
JSONValues ==
    Leaves \cup Rows \cup Arrs(Rows) \cup ObjsAt({"a"}, Rows)
        \cup ObjsAt({"a", "b"}, Leaves)
        \cup {Arr(<<Arr(<<r>>), r>>) : r \in Rows} \cup {NestedSample}
        \cup {Obj([a |-> Str("NOT FOUND")])}

\* label paths of a configuration
Paths ==
    {<<>>, <<"a">>, <<"b">>, <<"a", ".", "b">>, <<"a", ".", "a">>,
     <<"a", ".">>, <<".", "a">>, NestedPath}

\* target.Labels: label name to path; the last two name a label as the
\* resource attributes are named
LabelMaps ==
    {<<>>} \cup {[l1 |-> p] : p \in Paths}
        \cup {[l1 |-> p, l2 |-> <<"b">>] : p \in Paths}
        \cup {[endpoint |-> <<"a">>], [l1 |-> <<"a">>] @@ ("service.name" :> <<"b">>)}

\* the targets handed to the parse functions
ParseTargets ==
    {[endpoint |-> <<"h", ":", "/", "/", "h">>, serviceName |-> <<"svc">>,
      logLevel |-> "info", labels |-> lm] : lm \in LabelMaps}

\* the receiver's fields, which a function called on its own leaves alone
receiver == <<method, cancel, doneClosed, crashed, pc, ctxDone, tick, poll,
              orphans, sdPendR, sdPendO, sdRetR, sdRetO>>

ExtractCalls ==
    {[fn |-> "extractValueByPath", path |-> p, raw |-> v, done |-> FALSE] :
        p \in Paths, v \in JSONValues}

\* text bodies: letters, blanks and newlines
TextBodies == SeqsUpTo({"a", "b", " ", "\n"}, MaxBodyLen)

ParseTextCalls ==
    {[fn |-> "parseTextLogs", body |-> b, target |-> tg, done |-> FALSE] :
        b \in TextBodies, tg \in ParseTargets}

\* target.Headers as the range loop yields it: pairs with distinct keys
HeaderKeys == {"Content-Type", "content-type", "X-Token"}
HeaderValues == {"", "text/csv", "application/xml"}
HeaderLists ==
    {h \in SeqsUpTo(HeaderKeys \X HeaderValues, 2) :
        \A i, j \in 1..Len(h) : i # j => h[i][1] # h[j][1]}

\* target.Body
RequestBodies == {<<>>, <<"{">>, <<" ", "{">>, <<"a">>, <<" ">>, <<"a", "{">>}

CreateRequestCalls ==
    {[fn |-> "createRequest",
      target |-> [method |-> m, body |-> b, headers |-> h],
      done |-> FALSE] : m \in Methods, b \in RequestBodies, h \in HeaderLists}

\* target.Endpoint: none, http://host, http://host/path (the tests' valid
\* ones), invalid-url (the tests' invalid one), a bare path, scheme:opaque,
\* and a colon with no scheme
Endpoints ==
    {<<>>,
     <<"h", ":", "/", "/", "h">>,
     <<"h", ":", "/", "/", "h", "/", "h">>,
     <<"h">>,
     <<"/", "h">>,
     <<"h", ":", "h">>,
     <<":", "h">>}

ValidateTargetInputs ==
    {[endpoint |-> e, method |-> x[1], serviceName |-> x[2], logLevel |-> x[3]] :
        e \in Endpoints,
        x \in {<<"", "", "">>, <<"POST", "my-service", "debug">>,
               <<"POST", "", "debug">>, <<"", "my-service", "">>}}

ValidateCalls ==
    {[fn |-> "Validate", cfg |-> [interval |-> iv, targets |-> ts],
      done |-> FALSE] :
        iv \in {-1, 0, 10},
        ts \in SeqsUpTo(ValidateTargetInputs, MaxConfigTargets)}

\* resp.Header.Get("Content-Type"): the JSON type in three spellings, none,
\* the text type, an unknown type and a type that only mentions json
ContentTypes ==
    {"application/json", "APPLICATION/JSON", "Application/Json; charset=utf-8",
     "", "text/plain", "Text/Plain", "application/octet-stream", "text/json"}

\* response bodies: a JSON object, broken JSON, blank lines, two lines, none
ParseBodies == {BodyObject, BodyBadJSON, BodyBlank, BodyLines, <<>>}

ParseLogsCalls ==
    {[fn |-> "parseLogs", ct |-> c, body |-> b, done |-> FALSE] :
        c \in ContentTypes, b \in ParseBodies}

\* target.LogLevel: the six names and warning in several letter cases, none,
\* and names the switch does not list
LevelNames ==
    {"trace", "TRACE", "debug", "Debug", "info", "INFO", "warn", "WARN",
     "warning", "Warning", "WARNING", "error", "ERROR", "fatal", "Fatal",
     "", "other", "Other", "warnings", "err"}

SeverityCalls ==
    {[fn |-> "getSeverityNumber", level |-> l, done |-> FALSE] :
        l \in LevelNames}

ParseJSONCalls ==
    {[fn |-> "parseJSONLogs", data |-> v, target |-> tg, done |-> FALSE] :
        v \in JSONValues, tg \in ParseTargets}

CalcInit ==
    /\ \/ calc \in ExtractCalls
       \/ calc \in ParseJSONCalls
       \/ calc \in ParseTextCalls
       \/ calc \in CreateRequestCalls
       \/ calc \in ValidateCalls
       \/ calc \in ParseLogsCalls
       \/ calc \in SeverityCalls
    /\ method = [t \in Targets |-> "GET"]
    /\ cancel = 0
    /\ doneClosed = FALSE
    /\ crashed = FALSE
    /\ pc = [l \in LoopIds |-> "unborn"]
    /\ ctxDone = [l \in LoopIds |-> FALSE]
    /\ tick = [l \in LoopIds |-> FALSE]
    /\ poll = [l \in LoopIds |-> [t \in Targets |-> IdlePoll]]
    /\ orphans = [l \in LoopIds |-> 0]
    /\ sdPendR = 0
    /\ sdPendO = 0
    /\ sdRetR = 0
    /\ sdRetO = 0

Called(f) == calc.fn = f /\ ~calc.done
Returned(f) == calc.fn = f /\ calc.done

\* r.extractValueByPath(path, raw)
CallExtractValueByPath ==
    /\ Called("extractValueByPath")
    /\ calc' = [fn |-> calc.fn, path |-> calc.path, raw |-> calc.raw,
                done |-> TRUE,
                out |-> extractValueByPath(calc.path, calc.raw)]
    /\ UNCHANGED receiver

\* r.parseJSONLogs(body, target, logs), body a valid JSON text
CallParseJSONLogs ==
    /\ Called("parseJSONLogs")
    /\ calc' = [fn |-> calc.fn, data |-> calc.data, target |-> calc.target,
                done |-> TRUE,
                out |-> parseJSONData(calc.data, calc.target)]
    /\ UNCHANGED receiver

\* r.parseTextLogs(body, target, logs)
CallParseTextLogs ==
    /\ Called("parseTextLogs")
    /\ calc' = [fn |-> calc.fn, body |-> calc.body, target |-> calc.target,
                done |-> TRUE,
                out |-> parseTextLogsFor(calc.body, calc.target)]
    /\ UNCHANGED receiver

\* r.createRequest(ctx, target)
CallCreateRequest ==
    /\ Called("createRequest")
    /\ calc' = [fn |-> calc.fn, target |-> calc.target, done |-> TRUE,
                out |-> createRequest(calc.target)]
    /\ UNCHANGED receiver

\* cfg.Validate()
CallValidate ==
    /\ Called("Validate")
    /\ calc' = [fn |-> calc.fn, cfg |-> calc.cfg, done |-> TRUE,
                out |-> ConfigValidate(calc.cfg)]
    /\ UNCHANGED receiver

\* r.parseLogs(resp, body, target)
CallParseLogs ==
    /\ Called("parseLogs")
    /\ calc' = [fn |-> calc.fn, ct |-> calc.ct, body |-> calc.body,
                done |-> TRUE, out |-> parseLogs(calc.ct, calc.body)]
    /\ UNCHANGED receiver

\* r.getSeverityNumber(level)
CallGetSeverityNumber ==
    /\ Called("getSeverityNumber")
    /\ calc' = [fn |-> calc.fn, level |-> calc.level, done |-> TRUE,
                out |-> getSeverityNumber(calc.level)]
    /\ UNCHANGED receiver

CalcNext ==
    \/ CallExtractValueByPath
    \/ CallParseJSONLogs
    \/ CallParseTextLogs
    \/ CallCreateRequest
    \/ CallValidate
    \/ CallParseLogs
    \/ CallGetSeverityNumber

CalcSpec == CalcInit /\ [][CalcNext]_vars

(***************************************************************************)
(* The claims.                                                             *)
(***************************************************************************)
Polls == LoopIds \X Targets

Quiescent ==
    /\ \A l \in LoopIds : pc[l] \in {"unborn", "exited"}
    /\ InFlight = 0

\* C1: in a receiver started once, no fan-out begins while a pollTarget
\* goroutine of an earlier fan-out is still running, and at most N pollTarget
\* goroutines are in flight.
C1_FanOutBarrier ==
    starts = 1 =>
        /\ \A l \in LoopIds : orphans[l] = 0
        /\ InFlight <= N

\* C1 witness: started once, the loop is in the fan-out of a tick (the first
\* poll's fan-out is over) and all N polls are in flight.
C1_Witness ==
    /\ starts = 1
    /\ pc[1] = "ticked"
    /\ InFlight = N

\* C2 (as claimed): once a Shutdown called on a running receiver has returned,
\* every polling loop has exited and no pollTarget goroutine, hence no
\* ConsumeLogs call, is running.
C2_ShutdownQuiesces == sdRetR > 0 => Quiescent

\* What holds of C2: the same, as long as Start has been called once only.
ShutdownQuiescesStartedOnce == (sdRetR > 0 /\ starts = 1) => Quiescent

\* C3: a poll that ends in an error changes nothing but itself (the other
\* polls, the loops, the contexts and the process stay as they are); the loop
\* gets past wg.Wait whatever the polls returned; it ends only at the select
\* on a cancelled context; and the fan-out of every tick spawns a poll for
\* every target.
PollFails(l, t) ==
    /\ poll[l][t].st # "done"
    /\ poll'[l][t].st = "done"
    /\ poll'[l][t].err # "none"

C3_FailureIsolated ==
    /\ [][\A l \in LoopIds, t \in Targets :
            PollFails(l, t) =>
              /\ \A q \in Polls :
                   q # <<l, t>> => poll'[q[1]][q[2]] = poll[q[1]][q[2]]
              /\ UNCHANGED <<pc, ctxDone, tick, crashed, doneClosed, orphans>>]_vars
    /\ [][\A l \in LoopIds :
            /\ (pc[l] # "exited" /\ pc'[l] = "exited")
                 => (pc[l] = "select" /\ ctxDone[l])
            /\ (pc[l] = "select" /\ pc'[l] = "ticked")
                 => \A t \in Targets : poll'[l][t] = Spawn(t)]_vars
    /\ [](\A l \in LoopIds :
            (~crashed /\ pc[l] \in Waiting
               /\ \A t \in Targets : poll[l][t].st = "done")
            => ENABLED LoopJoin(l))

\* C3 witness: in the fan-out of a tick, one target's poll has failed and the
\* other target's poll has delivered its batch.
C3_Witness ==
    \E l \in LoopIds, t, u \in Targets :
        /\ t # u
        /\ pc[l] = "ticked"
        /\ poll[l][t].st = "done" /\ poll[l][t].err # "none"
        /\ poll[l][u].st = "done" /\ poll[l][u].err = "none"
        /\ poll[l][u].calls = 1

\* C4 (as claimed): the lifecycle is Idle -> Running -> Stopped, and once
\* Stopped no loop is launched and no fan-out begins.
C4_NoRestart ==
    [][/\ Lifecycle = "Idle" => Lifecycle' \in {"Idle", "Running"}
       /\ Lifecycle = "Running" => Lifecycle' \in {"Running", "Stopped"}
       /\ Lifecycle = "Stopped" =>
            /\ Lifecycle' = "Stopped"
            /\ \A l \in LoopIds :
                 pc'[l] \in {"start"} \cup Waiting => pc'[l] = pc[l]]_vars

\* C5 (as claimed, in the form a finite run refutes): while a Shutdown called
\* on a running receiver has not returned, the process is alive.
C5_ShutdownNotStranded == sdPendR > 0 => ~crashed

\* C5 as a liveness property: Shutdown calls made on a running receiver
\* all return.
ShutdownReturns == (sdPendR > 0) ~> (sdPendR = 0)

\* C6: a loop that has started can fan out at once, with no tick taken; while
\* the loop is in a fan-out every target has a poll, outside it none; a poll
\* sends at most one request, and exactly one once it is past createRequest.
C6_OnePollPerTargetPerTick ==
    \A l \in LoopIds :
        /\ pc[l] = "start" =>
             /\ ~tick[l]
             /\ ~crashed => ENABLED LoopFirstPoll(l)
        /\ orphans[l] = 0
        /\ \A t \in Targets :
             /\ pc[l] \in Waiting <=> poll[l][t].st # "idle"
             /\ poll[l][t].attempts <= 1
             /\ poll[l][t].st \in {"http", "consume"} => poll[l][t].attempts = 1
             /\ (poll[l][t].st = "done" /\ poll[l][t].err # "build")
                  => poll[l][t].attempts = 1

\* C6 witness: in the fan-out of a tick a request has failed and was sent
\* once, while the other target has been polled too.
C6_Witness ==
    \E l \in LoopIds, t, u \in Targets :
        /\ t # u
        /\ pc[l] = "ticked"
        /\ poll[l][t].st = "done" /\ poll[l][t].err = "transport"
        /\ poll[l][t].attempts = 1
        /\ poll[l][u].attempts = 1

\* C7: a poll whose response has a status code >= 400 has returned an HTTP
\* status error, has not parsed the body and has not called the sink.
C7_HTTPErrorNoDelivery ==
    \A q \in Polls :
        LET p == poll[q[1]][q[2]] IN
        p.resp.status >= 400 =>
            /\ p.st = "done"
            /\ p.err = "status"
            /\ p.count = -1
            /\ p.calls = 0

\* C7 witness: a poll has received a response with status 400.
C7_Witness ==
    \E q \in Polls :
        /\ poll[q[1]][q[2]].resp.status = 400
        /\ poll[q[1]][q[2]].st = "done"

BadJSONResponse(r) == r.ct = "application/json" /\ r.body = BodyBadJSON

\* C8 (as claimed): a poll whose response has a JSON content type and a body
\* that is not valid JSON has returned a decode error and has not called the
\* sink.
C8_BadJSONDecodeError ==
    \A q \in Polls :
        LET p == poll[q[1]][q[2]] IN
        BadJSONResponse(p.resp) =>
            /\ p.st = "done"
            /\ p.err = "decode"
            /\ p.calls = 0

\* C8 (amended): such a poll has not called the sink and has returned an
\* error: a decode error when the status code is below 400, the HTTP status
\* error otherwise.
C8_BadJSONNoDelivery ==
    \A q \in Polls :
        LET p == poll[q[1]][q[2]] IN
        BadJSONResponse(p.resp) =>
            /\ p.st = "done"
            /\ p.calls = 0
            /\ p.err = IF p.resp.status < 400 THEN "decode" ELSE "status"

\* C8 witness: a poll has received malformed JSON with status 200.
C8_Witness ==
    \E q \in Polls :
        /\ BadJSONResponse(poll[q[1]][q[2]].resp)
        /\ poll[q[1]][q[2]].resp.status = 200
        /\ poll[q[1]][q[2]].err = "decode"

\* C9: a poll that has called the sink has a batch of at least one record,
\* and a poll whose parse result has no record has returned nil without
\* calling the sink.
C9_NoEmptyBatch ==
    \A q \in Polls :
        LET p == poll[q[1]][q[2]] IN
        /\ p.calls > 0 => p.count >= 1
        /\ p.count = 0 => (p.st = "done" /\ p.err = "none" /\ p.calls = 0)

\* C9 witness: a text body of blank lines has been parsed to no record and
\* the poll has returned nil.
C9_Witness ==
    \E q \in Polls :
        /\ poll[q[1]][q[2]].resp.body = BodyBlank
        /\ poll[q[1]][q[2]].count = 0
        /\ poll[q[1]][q[2]].st = "done"

\* C10: a poll whose ConsumeLogs call failed has returned the error after
\* that one call; no poll calls the sink twice; and while the process is alive
\* the other polls of the fan-out can go on and the loop can get past wg.Wait.
C10_SinkErrorNoRetry ==
    \A q \in Polls :
        LET l == q[1]
            p == poll[q[1]][q[2]] IN
        /\ p.calls <= 1
        /\ p.err = "sink" =>
             /\ p.st = "done"
             /\ p.calls = 1
             /\ ~crashed =>
                  \A u \in Targets \ {q[2]} :
                      /\ poll[l][u].st = "spawned" => ENABLED PollCreateRequest(l, u)
                      /\ poll[l][u].st = "http" => ENABLED HttpResponse(l, u)
                      /\ poll[l][u].st = "consume" => ENABLED ConsumeReturn(l, u)
             /\ (~crashed /\ \A u \in Targets : poll[l][u].st = "done")
                  => ENABLED LoopJoin(l)

\* C10 witness: the sink has rejected one target's batch and taken the
\* other's, in the same fan-out.
C10_Witness ==
    \E l \in LoopIds, t, u \in Targets :
        /\ t # u
        /\ poll[l][t].st = "done" /\ poll[l][t].err = "sink"
        /\ poll[l][u].st = "done" /\ poll[l][u].err = "none"
        /\ poll[l][u].calls = 1

\* C11: a poll calls the sink at most once; the batch of that call is the
\* whole parse result of the poll's own response, under the endpoint of the
\* poll's own target; a poll that has not called the sink has handed it nothing.
C11_OneWholeBatchPerPoll ==
    \A l \in LoopIds, t \in Targets :
        LET p == poll[l][t] IN
        /\ p.calls <= 1
        /\ p.calls = 0 => p.batch = NoBatch
        /\ p.calls = 1 =>
             /\ p.batch.endpoint = t
             /\ p.batch.records = parseLogs(p.resp.ct, p.resp.body).records
             /\ Len(p.batch.records) = p.count

\* C11 witness: the polls of two targets are inside ConsumeLogs at the same
\* time, each with a batch of two entries.
C11_Witness ==
    \E l \in LoopIds, t, u \in Targets :
        /\ t # u
        /\ poll[l][t].st = "consume" /\ Len(poll[l][t].batch.records) = 2
        /\ poll[l][u].st = "consume" /\ Len(poll[l][u].batch.records) = 2
        /\ poll[l][t].batch.endpoint # poll[l][u].batch.endpoint

\* C12 (as claimed, in the form a finite run refutes): once done is closed,
\* two Shutdown calls blocked on it (the second made while the first had not
\* returned) can return.
C12_SecondShutdownReturns ==
    (doneClosed /\ sdPendR + sdPendO >= 2) => ENABLED ShutdownReturn

\* What holds of C12: no Shutdown call returns before done is closed, and in a
\* receiver started once every blocked call can return once it is.
SecondShutdownStartedOnce ==
    /\ sdRetR + sdRetO > 0 => doneClosed
    /\ (starts = 1 /\ doneClosed /\ sdPendR + sdPendO > 0)
         => ENABLED ShutdownReturn

\* C13: Start can be called whatever the polls and the sink are doing, and
\* the step that launches a loop leaves the loop before its first fan-out: no
\* poll is spawned, no request sent, no sink call made within Start.
C13_StartNeverBlocks ==
    /\ []((~crashed /\ \E l \in LoopIds : pc[l] = "unborn") => ENABLED Start)
    /\ [][\A l \in LoopIds :
            (pc[l] = "unborn" /\ pc'[l] # "unborn") =>
                /\ pc'[l] = "start"
                /\ cancel' = l
                /\ UNCHANGED <<poll, orphans, tick, ctxDone, doneClosed, crashed>>]_vars

\* C13 witness: Start has returned, the loop it launched has not begun its
\* first fan-out.
C13_Witness ==
    /\ cancel = 1
    /\ pc[1] = "start"
    /\ \A t \in Targets : poll[1][t] = IdlePoll

\* what one element's result adds to the aggregate
Contribution(v) ==
    IF v = Null THEN <<>> ELSE IF v.k = "arr" THEN v.elems ELSE <<v>>

RECURSIVE Concat(_)
Concat(ss) == IF ss = <<>> THEN <<>> ELSE Head(ss) \o Concat(Tail(ss))

\* C17: applied to a sequence, extractValueByPath returns the results of the
\* full path on the elements, in element order, null results left out and
\* sequence results spliced one level: null if that aggregate is empty, the
\* aggregate as a sequence otherwise, also when it has one member.  The
\* nested payload of the test yields the flat sequence of its three leaves.
C17_SequenceAggregation ==
    Returned("extractValueByPath") =>
        /\ calc.raw.k = "arr" =>
             LET els == calc.raw.elems
                 agg == Concat([i \in 1..Len(els) |->
                           Contribution(extractValueByPath(calc.path, els[i]))])
             IN  calc.out = IF agg = <<>> THEN Null ELSE Arr(agg)
        /\ (calc.raw = NestedSample /\ calc.path = NestedPath) =>
             calc.out = Arr(<<Str("x"), Num(1), Str("x")>>)

\* C17 witness: a sequence of two mappings, one holding a sequence under the
\* key, the other a scalar; the result splices the one and appends the other.
C17_Witness ==
    /\ Returned("extractValueByPath")
    /\ calc.path = <<"a">>
    /\ calc.raw = Arr(<<Obj([a |-> Arr(<<Str("x"), Num(1)>>)]),
                        Obj([a |-> Num(1)])>>)
    /\ calc.out = Arr(<<Str("x"), Num(1), Num(1)>>)

\* a pcommon.Value that has the structure of a decoded JSON value
RECURSIVE Mirrors(_, _)
Mirrors(pv, jv) ==
    CASE jv.k = "obj" ->
           /\ pv.t = "Map"
           /\ DOMAIN pv.entries = DOMAIN jv.fields
           /\ \A key \in DOMAIN jv.fields :
                Mirrors(pv.entries[key], jv.fields[key])
      [] jv.k = "arr" ->
           /\ pv.t = "Slice"
           /\ Len(pv.vals) = Len(jv.elems)
           /\ \A i \in 1..Len(jv.elems) : Mirrors(pv.vals[i], jv.elems[i])
      [] jv.k = "str" -> pv = PStr(jv.s)
      [] jv.k = "num" -> pv = PDouble(jv.n)
      [] jv.k = "null" -> pv = PStr("null")

RECURSIVE Reach(_, _)
Reach(path, raw) ==
    IF path = <<>> THEN {}
    ELSE CASE raw.k = "obj" ->
                IF HasKey(raw, HeadOf(path))
                THEN IF TailOf(path) = <<>> THEN {Child(raw, HeadOf(path))}
                     ELSE Reach(TailOf(path), Child(raw, HeadOf(path)))
                ELSE {}
           [] raw.k = "arr" ->
                UNION {Reach(path, raw.elems[i]) : i \in 1..Len(raw.elems)}
           [] OTHER -> {}

\* C18: parseJSONLogs returns no error whatever the label paths are; the
\* record has an attribute for every configured label and for no other name;
\* the attribute of a label whose path leads to no element is NOT FOUND.
C18_MissingPathNotFound ==
    Returned("parseJSONLogs") =>
        LET labels == calc.target.labels
            rec == calc.out.records[1] IN
        /\ ~calc.out.err
        /\ DOMAIN rec.attrs = DOMAIN labels
        /\ \A name \in DOMAIN labels :
             Reach(labels[name], calc.data) = {} => rec.attrs[name] = NotFound

\* C18 witness: of two labels one is found and the other is not.
C18_Witness ==
    /\ Returned("parseJSONLogs")
    /\ calc.data = Obj([a |-> Str("x")])
    /\ calc.target.labels = [l1 |-> <<"a">>, l2 |-> <<"b">>]
    /\ calc.out.records[1].attrs = [l1 |-> <<"x">>, l2 |-> NotFound]

NonEmptyLine(line) == line # <<>>

\* C16: the records of the text branch are, in line order, the trimmed forms
\* of the lines that are non-empty after trimming: as many records as there
\* are such lines, the lines being the pieces between the newlines; no record
\* is empty or begins or ends with white space; no error is returned.
C16_TextLines ==
    Returned("parseTextLogs") =>
        LET lines == SplitLines(calc.body, <<>>)
            trimmed == [i \in 1..Len(lines) |-> TrimSpace(lines[i])]
            records == calc.out.records IN
        /\ ~calc.out.err
        /\ Len(lines) = 1 + Cardinality({i \in 1..Len(calc.body) :
                                            calc.body[i] = "\n"})
        /\ records = SelectSeq(trimmed, NonEmptyLine)
        /\ Len(records) = Cardinality({i \in 1..Len(lines) :
                                          \E j \in 1..Len(lines[i]) :
                                              ~IsSpace(lines[i][j])})
        /\ \A i \in 1..Len(records) :
             /\ records[i] # <<>>
             /\ ~IsSpace(records[i][1])
             /\ ~IsSpace(records[i][Len(records[i])])

\* C16 witness: two lines with a blank line between them and white space
\* before the first give two records, in line order.
C16_Witness ==
    /\ Returned("parseTextLogs")
    /\ calc.body = <<" ", "b", "\n", "\n", "a">>
    /\ calc.out.records = << <<"b">>, <<"a">> >>

\* the values of the target's Content-Type entries
ExplicitContentTypes(target) ==
    {target.headers[i][2] : i \in {j \in 1..Len(target.headers) :
        CanonicalKey(target.headers[j][1]) = "Content-Type"}}

HasSchemeAndHost(e) ==
    /\ SchemeOf(e) # <<>>
    /\ Len(RestOf(e)) >= 3
    /\ RestOf(e)[1] = "/" /\ RestOf(e)[2] = "/" /\ RestOf(e)[3] # "/"

\* C20 (as claimed): Validate returns an error exactly when there is no
\* target, or a target has no endpoint, or a target's endpoint is not an
\* absolute URL with scheme and host; each cause has its own error.
C20_ValidateRejects ==
    Returned("Validate") =>
        LET ts == calc.cfg.targets IN
        /\ calc.out.err # "none" <=>
             \/ ts = <<>>
             \/ \E i \in 1..Len(ts) : ts[i].endpoint = <<>>
             \/ \E i \in 1..Len(ts) : ~HasSchemeAndHost(ts[i].endpoint)
        /\ ts = <<>> => calc.out.err = "no targets configured"

\* What holds of C20: the same with "url.ParseRequestURI rejects the
\* endpoint" in the place of "is not an absolute URL with scheme and host".
ValidateRejectsUnparsable ==
    Returned("Validate") =>
        LET ts == calc.cfg.targets IN
        /\ calc.out.err # "none" <=>
             \/ ts = <<>>
             \/ \E i \in 1..Len(ts) : ts[i].endpoint = <<>>
             \/ \E i \in 1..Len(ts) : ~ParseRequestURIOk(ts[i].endpoint)
        /\ ts = <<>> => calc.out.err = "no targets configured"

\* C21: parseLogs returns an error only for a body that is not valid JSON
\* under a Content-Type that contains application/json in any letter case;
\* under every other Content-Type, an empty or unknown one included, it
\* returns what the text branch returns, which is never an error.
C21_ParseLogsFailsOnlyOnBadJSON ==
    Returned("parseLogs") =>
        LET json == calc.ct \in {"application/json", "APPLICATION/JSON",
                                 "Application/Json; charset=utf-8"} IN
        /\ calc.out.err <=> (json /\ calc.body # BodyObject)
        /\ ~json =>
             /\ ~calc.out.err
             /\ calc.out.records =
                  KeepNonEmptyTrimmed(SplitLines(calc.body, <<>>))
        /\ (json /\ calc.body = BodyObject) => Len(calc.out.records) = 1

\* C21 witness: a broken JSON body under an unknown Content-Type is read as
\* one line of text, without an error.
C21_Witness ==
    /\ Returned("parseLogs")
    /\ calc.ct = "application/octet-stream"
    /\ calc.body = BodyBadJSON
    /\ ~calc.out.err
    /\ Len(calc.out.records) = 1

\* C22: getSeverityNumber returns, for every level, the severity of the name
\* the level spells in any letter case (warn and warning give the same one),
\* and the info severity for every other level, the empty one included.
C22_SeverityTotalCaseInsensitive ==
    Returned("getSeverityNumber") =>
        LET l == calc.level IN
        calc.out =
            CASE l \in {"trace", "TRACE"} -> "SeverityNumberTrace"
              [] l \in {"debug", "Debug"} -> "SeverityNumberDebug"
              [] l \in {"warn", "WARN", "warning", "Warning", "WARNING"} ->
                   "SeverityNumberWarn"
              [] l \in {"error", "ERROR"} -> "SeverityNumberError"
              [] l \in {"fatal", "Fatal"} -> "SeverityNumberFatal"
              [] OTHER -> "SeverityNumberInfo"

\* C22 witness: WARNING in capitals has the warn severity.
C22_Witness ==
    /\ Returned("getSeverityNumber")
    /\ calc.level = "WARNING"
    /\ calc.out = "SeverityNumberWarn"
    /\ calc.out = getSeverityNumber("warn")

\* C23 (as claimed): a batch of either branch has the resource attributes
\* endpoint and service.name with the target's values; a text batch has every
\* label of the target as a resource attribute as well, a JSON batch has none.
C23_ResourceAttributes ==
    /\ Returned("parseJSONLogs") =>
          calc.out.resource = ("endpoint" :> calc.target.endpoint)
                                @@ ("service.name" :> calc.target.serviceName)
    /\ Returned("parseTextLogs") =>
          LET res == calc.out.resource
              labels == calc.target.labels IN
          /\ DOMAIN res = {"endpoint", "service.name"} \cup DOMAIN labels
          /\ res["endpoint"] = calc.target.endpoint
          /\ res["service.name"] = calc.target.serviceName
          /\ \A name \in DOMAIN labels : res[name] = labels[name]

\* C23 (amended): as claimed, except that in a text batch a label named
\* endpoint or service.name replaces the target's value of that attribute.
C23_ResourceAttributesLabelsLast ==
    /\ Returned("parseJSONLogs") =>
          calc.out.resource = ("endpoint" :> calc.target.endpoint)
                                @@ ("service.name" :> calc.target.serviceName)
    /\ Returned("parseTextLogs") =>
          LET res == calc.out.resource
              labels == calc.target.labels IN
          /\ DOMAIN res = {"endpoint", "service.name"} \cup DOMAIN labels
          /\ "endpoint" \notin DOMAIN labels =>
                res["endpoint"] = calc.target.endpoint
          /\ "service.name" \notin DOMAIN labels =>
                res["service.name"] = calc.target.serviceName
          /\ \A name \in DOMAIN labels : res[name] = labels[name]

\* C23 witness: a text batch of a target with two labels has four resource
\* attributes.
C23_Witness ==
    /\ Returned("parseTextLogs")
    /\ calc.body = <<"a">>
    /\ calc.target.labels = [l1 |-> <<"a">>, l2 |-> <<"b">>]
    /\ calc.out.resource =
         [l1 |-> <<"a">>, l2 |-> <<"b">>]
           @@ ("endpoint" :> calc.target.endpoint)
           @@ ("service.name" :> calc.target.serviceName)

\* C24: when Validate has returned no error, the interval is positive (the
\* default of 30 seconds if it was zero or negative, else the one given), and
\* every target has its endpoint and, for Method, ServiceName and LogLevel,
\* the value given, or GET, logs-receiver and info where none was given.
C24_ValidateFillsDefaults ==
    (Returned("Validate") /\ calc.out.err = "none") =>
        LET in == calc.cfg
            out == calc.out.cfg IN
        /\ out.interval > 0
        /\ out.interval = IF in.interval <= 0 THEN 30 ELSE in.interval
        /\ Len(out.targets) = Len(in.targets)
        /\ \A i \in 1..Len(in.targets) :
             LET a == in.targets[i]
                 b == out.targets[i] IN
             /\ b.endpoint = a.endpoint
             /\ b.method # "" /\ b.serviceName # "" /\ b.logLevel # ""
             /\ b.method = IF a.method = "" THEN "GET" ELSE a.method
             /\ b.serviceName =
                  IF a.serviceName = "" THEN "logs-receiver" ELSE a.serviceName
             /\ b.logLevel = IF a.logLevel = "" THEN "info" ELSE a.logLevel

\* C24 witness: a configuration with interval zero, a target with nothing but
\* its endpoint and a target with only a method and a level has been
\* validated.
C24_Witness ==
    /\ Returned("Validate")
    /\ calc.out.err = "none"
    /\ calc.cfg.interval = 0
    /\ calc.out.cfg.interval = 30
    /\ Len(calc.cfg.targets) = 2
    /\ calc.cfg.targets[1].method = "" /\ calc.cfg.targets[1].serviceName = ""
    /\ calc.out.cfg.targets[1].method = "GET"
    /\ calc.out.cfg.targets[1].serviceName = "logs-receiver"
    /\ calc.out.cfg.targets[1].logLevel = "info"
    /\ calc.cfg.targets[2].method = "POST"
    /\ calc.out.cfg.targets[2].method = "POST"
    /\ calc.out.cfg.targets[2].serviceName = "logs-receiver"
    /\ calc.out.cfg.targets[2].logLevel = "debug"

C25_ShutdownNeedsExitedLoop ==
    /\ sdRetR + sdRetO > 0 =>
         /\ doneClosed
         /\ \E l \in LoopIds : pc[l] = "exited"
    /\ starts = 0 =>
         /\ cancel = 0
         /\ ~doneClosed
         /\ sdRetR + sdRetO = 0
         /\ ~ENABLED ShutdownReturn

\* C25 witness: Shutdown was called twice on a receiver that was never
\* started; both calls are blocked.
C25_Witness ==
    /\ starts = 0
    /\ sdPendO = 2
    /\ sdRetO = 0
    /\ ~ENABLED ShutdownReturn

\* loops between their launch and their exit
ActiveLoops == {l \in LoopIds : pc[l] \notin {"unborn", "exited"}}

\* C26 (as claimed): at most one polling loop is active, and done is never
\* closed a second time.
C26_OneLoopOneClose ==
    /\ Cardinality(ActiveLoops) <= 1
    /\ ~crashed

\* a fan-out of loop l begins in this step
FanOutBegins(l) == pc[l] \notin Waiting /\ pc'[l] \in Waiting

\* C27 (as claimed): once the context of a loop is cancelled, no fan-out of
\* that loop begins, neither the first one nor one for a tick.
C27_NoFanOutAfterCancel ==
    [][\A l \in LoopIds : ctxDone[l] => ~FanOutBegins(l)]_vars

\* C27 (amended): once the context of a loop is cancelled, a fan-out of that
\* loop begins only as the loop's first poll, or at the select for a tick
\* that is pending there, which it uses up; a loop that has exited stays so.
C27_FanOutAfterCancelOnlyFirstOrPendingTick ==
    [][\A l \in LoopIds :
         /\ (ctxDone[l] /\ FanOutBegins(l)) =>
              \/ pc[l] = "start" /\ pc'[l] = "first"
              \/ /\ pc[l] = "select" /\ pc'[l] = "ticked"
                 /\ tick[l] /\ ~tick'[l]
         /\ pc[l] = "exited" => pc'[l] = "exited"]_vars

\* C27 witness: the loop is at the select with its context cancelled and a
\* tick pending; it can take the tick and poll, and it can exit.
C27_Witness ==
    \E l \in LoopIds :
        /\ ctxDone[l]
        /\ pc[l] = "select"
        /\ tick[l]
        /\ ENABLED LoopTickPoll(l)
        /\ ENABLED LoopCancel(l)

=============================================================================
